---------------------------- MODULE Spec2Model ----------------------------
(***************************************************************************)
(* Model of watch-rust-errors: the diagnostic parser (src/rust.rs), the    *)
(* process runner and its line scanner (src/cargo.rs), the watch           *)
(* controller and its background worker (src/watcher.rs) and the host's    *)
(* ToggleWatch state machine (src/main.rs).                                *)
(*                                                                         *)
(* Text is a sequence of symbols.  The keywords "error", "warning" and     *)
(* "-->" are single symbols; every other symbol is one character, "\n"     *)
(* being the line terminator.  A u32 is kept as its canonical decimal      *)
(* digit sequence, so that to_string and parse are what the code computes  *)
(* and the 32-bit range is exact.  Option<T> is a sequence of length <= 1. *)
(***************************************************************************)
EXTENDS Integers, Sequences, FiniteSets, TLC

VARIABLES
    \* ---- parser / runner harness (src/rust.rs, src/cargo.rs) ----
    diag,       \* Option<RustDiagnostic>: the diagnostic being rendered
    items,      \* the pieces the stderr text was assembled from
    text,       \* the text handed to from_str or captured as stderr
    status,     \* exit status of the child process
    parsed,     \* Option<result of RustDiagnostic::from_str>
    compiled,   \* Option<result of cargo::run>
    ppc,        \* position of the harness
    \* ---- watch controller, worker and host (src/watcher.rs, src/main.rs) ----
    policy,     \* whom the build's RwLock prefers: "readers" or "writers"
    state,      \* the State behind each Watcher created so far (Arc<RwLock<State>>)
    channels,   \* the glib channel behind each State's tx
    workers,    \* the threads spawned by Watcher::start so far
    control,    \* the controlling thread's call that waits for the write lock
    model,      \* the host's Model
    order       \* history: the order of a Watcher's triggers and of its sends

pvars == <<diag, items, text, status, parsed, compiled, ppc>>

wvars == <<policy, state, channels, workers, control, model, order>>

vars == <<diag, items, text, status, parsed, compiled, ppc,
          policy, state, channels, workers, control, model, order>>

-----------------------------------------------------------------------------
(* Option<T> *)

None == <<>>

Some(x) == <<x>>

NL == "\n"

Digits == {"0", "1", "2", "3", "4", "5", "6", "7", "8", "9"}

DigitVal(c) ==
    CASE c = "0" -> 0 [] c = "1" -> 1 [] c = "2" -> 2 [] c = "3" -> 3
      [] c = "4" -> 4 [] c = "5" -> 5 [] c = "6" -> 6 [] c = "7" -> 7
      [] c = "8" -> 8 [] c = "9" -> 9

\* the symbol at position i, "" past either end
At(s, i) == IF i \in 1..Len(s) THEN s[i] ELSE ""

Tail_(s, i) == SubSeq(s, i, Len(s))

\* position of the first symbol c at or after position i, 0 when there is none
IndexFrom(s, c, i) ==
    LET hits == {j \in i..Len(s) : s[j] = c}
    IN  IF hits = {} THEN 0 ELSE CHOOSE j \in hits : \A k \in hits : j <= k

\* length of the longest run of digits starting at position i  ([0-9]+ is greedy)
DigitRun(s, i) ==
    LET stops == {j \in i..(Len(s) + 1) : At(s, j) \notin Digits}
    IN  IF i > Len(s) + 1 THEN 0
        ELSE (CHOOSE j \in stops : \A k \in stops : j <= k) - i

\* length of the longest run of spaces starting at position i
SpaceRun(s, i) ==
    LET stops == {j \in i..(Len(s) + 1) : At(s, j) # " "}
    IN  IF i > Len(s) + 1 THEN 0
        ELSE (CHOOSE j \in stops : \A k \in stops : j <= k) - i

StartsWith(s, c) == At(s, 1) = c

-----------------------------------------------------------------------------
(* u32 <-> text *)

U32Max == <<"4", "2", "9", "4", "9", "6", "7", "2", "9", "5">>

RECURSIVE StripZeros(_)
StripZeros(d) ==
    IF Len(d) > 1 /\ d[1] = "0" THEN StripZeros(Tail(d)) ELSE d

DigitsGreater(a, b) ==
    \E i \in 1..Len(a) :
        /\ \A j \in 1..(i - 1) : a[j] = b[j]
        /\ DigitVal(a[i]) > DigitVal(b[i])

\* str::parse::<u32> on a non-empty digit string: None on overflow
ParseU32(d) ==
    LET c == StripZeros(d)
    IN  IF Len(c) > Len(U32Max) \/ (Len(c) = Len(U32Max) /\ DigitsGreater(c, U32Max))
        THEN None
        ELSE Some(c)

\* u32::to_string
U32ToString(n) == n

-----------------------------------------------------------------------------
(* src/rust.rs *)

Ok(v) == [tag |-> "Ok", val |-> v]

Err == [tag |-> "Err", val |-> <<>>]

Panic == [tag |-> "Panic", val |-> <<>>]

TypeDisplay(t) == IF t = "Error" THEN "error" ELSE "warning"

TypeFromStr(inp) ==
    IF inp = "error" THEN Ok("Error")
    ELSE IF inp = "warning" THEN Ok("Warning")
    ELSE Err

NoCaptures == [matched |-> FALSE, g1 |-> None, g2 |-> None, g3 |-> None, g4 |-> None]

\* (error|warning)(\[(E[0-9]+)\])?: (.*)  tried at position i
RegexErrAt(s, i) ==
    LET j == i + 1
        k == DigitRun(s, j + 2)
        withNum == /\ At(s, j) = "[" /\ At(s, j + 1) = "E" /\ k >= 1
                   /\ At(s, j + 2 + k) = "]"
                   /\ At(s, j + 3 + k) = ":" /\ At(s, j + 4 + k) = " "
        bare == At(s, j) = ":" /\ At(s, j + 1) = " "
    IN  IF At(s, i) \notin {"error", "warning"} THEN NoCaptures
        ELSE IF withNum
        THEN [matched |-> TRUE, g1 |-> Some(s[i]), g2 |-> None,
              g3 |-> Some(SubSeq(s, j + 1, j + 1 + k)),
              g4 |-> Some(Tail_(s, j + 5 + k))]
        ELSE IF bare
        THEN [matched |-> TRUE, g1 |-> Some(s[i]), g2 |-> None,
              g3 |-> None, g4 |-> Some(Tail_(s, j + 2))]
        ELSE NoCaptures

\* Regex::captures: the leftmost match anywhere in the line
REGEX_ERR(s) ==
    LET at == {i \in 1..Len(s) : RegexErrAt(s, i).matched}
    IN  IF at = {} THEN NoCaptures
        ELSE RegexErrAt(s, CHOOSE i \in at : \A k \in at : i <= k)

\*  +--> ([^:]+):([0-9]+):([0-9]+)  tried at position i
RegexContextAt(s, i) ==
    LET sp == SpaceRun(s, i)
        a  == i + sp                    \* "-->"
        f  == a + 2                     \* first symbol of the file
        c1 == IndexFrom(s, ":", f)      \* [^:]+ stops at the first ':'
        k1 == DigitRun(s, c1 + 1)
        c2 == c1 + 1 + k1
        k2 == DigitRun(s, c2 + 1)
    IN  IF /\ sp >= 1 /\ At(s, a) = "-->" /\ At(s, a + 1) = " "
           /\ c1 > f /\ k1 >= 1 /\ At(s, c2) = ":" /\ k2 >= 1
        THEN [matched |-> TRUE, g1 |-> Some(SubSeq(s, f, c1 - 1)),
              g2 |-> Some(SubSeq(s, c1 + 1, c1 + k1)),
              g3 |-> Some(SubSeq(s, c2 + 1, c2 + k2)), g4 |-> None]
        ELSE NoCaptures

REGEX_CONTEXT(s) ==
    LET at == {i \in 1..Len(s) : RegexContextAt(s, i).matched}
    IN  IF at = {} THEN NoCaptures
        ELSE RegexContextAt(s, CHOOSE i \in at : \A k \in at : i <= k)

RustDiagnostic(type_, num, message, file, line, column, details) ==
    [type_ |-> type_, num |-> num, message |-> message, file |-> file,
     line |-> line, column |-> column, details |-> details]

\* impl Display for RustDiagnostic
fmt(d) ==
    <<TypeDisplay(d.type_)>>
    \o (IF d.num # None THEN <<"[">> \o d.num[1] \o <<"]">> ELSE <<>>)
    \o <<":", " ">> \o d.message \o <<NL>>
    \o (IF d.file # None
        THEN <<" ", " ", "-->", " ">> \o d.file[1] \o <<":">>
             \o (IF d.line # None THEN U32ToString(d.line[1]) ELSE <<"-">>)
             \o <<":">>
             \o (IF d.column # None THEN U32ToString(d.column[1]) ELSE <<"-">>)
             \o <<NL>>
        ELSE <<>>)
    \o (IF d.details # None THEN d.details[1] \o <<NL>> ELSE <<>>)

\* inp.splitn(3, '\n')
splitn3(inp) ==
    LET n1 == IndexFrom(inp, NL, 1)
        n2 == IndexFrom(inp, NL, n1 + 1)
    IN  IF n1 = 0 THEN <<inp>>
        ELSE IF n2 = 0 THEN <<SubSeq(inp, 1, n1 - 1), Tail_(inp, n1 + 1)>>
        ELSE <<SubSeq(inp, 1, n1 - 1), SubSeq(inp, n1 + 1, n2 - 1), Tail_(inp, n2 + 1)>>

\* impl FromStr for RustDiagnostic
from_str(inp) ==
    LET lines   == splitn3(inp)
        err     == REGEX_ERR(lines[1])
        hasCtx  == Len(lines) > 1 /\ lines[2] # <<>>
        context == IF hasCtx THEN REGEX_CONTEXT(lines[2]) ELSE NoCaptures
        file    == context.g1
        line    == context.g2
        col     == context.g3
        details == IF Len(lines) > 2 /\ lines[3] # <<>> THEN Some(lines[3]) ELSE None
        type_   == IF err.g1 = None THEN Err ELSE TypeFromStr(err.g1[1])
        lineNo  == IF line = None THEN Some(None) ELSE
                   IF ParseU32(line[1]) = None THEN None ELSE Some(ParseU32(line[1]))
        colNo   == IF col = None THEN Some(None) ELSE
                   IF ParseU32(col[1]) = None THEN None ELSE Some(ParseU32(col[1]))
    IN  IF ~err.matched \/ err.g1 = None \/ err.g4 = None THEN Err
        ELSE IF hasCtx /\ ~context.matched THEN Err
        ELSE IF type_.tag # "Ok" THEN Err
        ELSE IF lineNo = None THEN Panic      \* expect("Line number was not a number!")
        ELSE IF colNo = None THEN Panic       \* expect("Column number was not a number!")
        ELSE Ok(RustDiagnostic(type_.val, err.g3, err.g4[1], file,
                               lineNo[1], colNo[1], details))

-----------------------------------------------------------------------------
(* src/cargo.rs *)

CompileResult(success, errors, warnings) ==
    [success |-> success, errors |-> errors, warnings |-> warnings]

\* str::lines: split at every "\n"; a final line need not be terminated
RECURSIVE str_lines(_)
str_lines(s) ==
    LET n == IndexFrom(s, NL, 1)
    IN  IF s = <<>> THEN <<>>
        ELSE IF n = 0 THEN <<s>>
        ELSE <<SubSeq(s, 1, n - 1)>> \o str_lines(Tail_(s, n + 1))

\* ParseState::Nothing is None, ParseState::Diagnostic(s) is Some(s);
\* ret is Some(e) once `diag.parse()?` has returned e from run
Scanner(st, result, ret) == [state |-> st, result |-> result, ret |-> ret]

\* the end of a block, were every diagnostic filed under errors
EndOfBlockFilesAllAsErrors(sc, d) ==
    IF d.tag # "Ok" THEN Scanner(sc.state, sc.result, Some(d))
    ELSE Scanner(None, [sc.result EXCEPT !.errors = Append(@, d.val)], None)

\* the blank line that ends a block: parse it and file it under its type
end_of_block(sc, d) ==
    IF d.tag # "Ok" THEN Scanner(sc.state, sc.result, Some(d))
    ELSE IF d.val.type_ = "Error"
    THEN Scanner(None, [sc.result EXCEPT !.errors = Append(@, d.val)], None)
    ELSE Scanner(None, [sc.result EXCEPT !.warnings = Append(@, d.val)], None)

\* one iteration of `for line in output.lines()`
scan_line(sc, line) ==
    IF sc.state = None
    THEN IF StartsWith(line, "warning") \/ StartsWith(line, "error")
         THEN Scanner(Some(line \o <<NL>>), sc.result, None)
         ELSE sc
    ELSE IF line = <<>>
         THEN end_of_block(sc, from_str(sc.state[1]))
         ELSE Scanner(Some(sc.state[1] \o line \o <<NL>>), sc.result, None)

\* the loop from line i on
RECURSIVE scan(_, _, _)
scan(lines, i, sc) ==
    IF i > Len(lines) \/ sc.ret # None THEN sc
    ELSE scan(lines, i + 1, scan_line(sc, lines[i]))

\* Ok(result) after the loop, unless the loop returned early
scan_result(sc) == IF sc.ret # None THEN sc.ret[1] ELSE Ok(sc.result)

\* what the child process did: spawned or not, stderr valid UTF-8 or not,
\* exit status zero or not, and the stderr text
Output(spawned, utf8, success, stderr) ==
    [spawned |-> spawned, utf8 |-> utf8, success |-> success, stderr |-> stderr]

\* run, were success to mean "no error diagnostics" as well
RunSuccessMeansNoErrors(out) ==
    LET r == IF out.spawned /\ out.utf8
             THEN scan_result(scan(str_lines(out.stderr), 1,
                                   Scanner(None, CompileResult(out.success, <<>>, <<>>), None)))
             ELSE Err
    IN  IF r.tag = "Ok"
        THEN Ok([r.val EXCEPT !.success = (out.success /\ r.val.errors = <<>>)])
        ELSE r

\* cargo::run, as a function of what the child process did
run(out) ==
    IF ~out.spawned THEN Err
    ELSE IF ~out.utf8 THEN Err
    ELSE scan_result(scan(str_lines(out.stderr), 1,
                          Scanner(None, CompileResult(out.success, <<>>, <<>>), None)))

-----------------------------------------------------------------------------
(* Inputs of the parser harness *)

MaxItems == 4

Types == {"Error", "Warning"}

Diagnostics ==
    {d \in [type_ : Types,
            num : {None, Some(<<"E", "1">>)},
            message : {<<"m">>},
            file : {None, Some(<<"f">>)},
            line : {None, Some(<<"1", "2">>)},
            column : {None, Some(<<"3">>)},
            details : {None, Some(<<"x">>)}] :
        d.file = None => (d.line = None /\ d.column = None)}

Item(kind, txt, d) == [kind |-> kind, text |-> txt, d |-> d]

BlockItem(d) == Item("block", fmt(d), Some(d))

\* an empty line, a line of tool chatter, two blocks the grammar accepts and
\* one block whose header it does not
ItemPool ==
    { Item("blank", <<NL>>, None),
      Item("noise", <<" ", "x", NL>>, None),
      BlockItem(RustDiagnostic("Error", Some(<<"E", "1">>), <<"m">>,
                               Some(<<"f">>), Some(<<"1", "2">>), Some(<<"3">>), None)),
      BlockItem(RustDiagnostic("Warning", None, <<"m">>, None, None, None, None)),
      Item("bad", <<"error", "s", ":", " ", "m", NL>>, None) }

RECURSIVE SeqsUpTo(_, _)
SeqsUpTo(S, n) ==
    IF n = 0 THEN {<<>>}
    ELSE LET shorter == SeqsUpTo(S, n - 1)
         IN  shorter \cup {Append(q, x) : q \in shorter, x \in S}

\* the texts of single blocks: a header alone, a header and its line end, a
\* header followed by detail, by an empty line and detail, or by a location
\* line whose numbers are in range, out of range or no numbers
Header == <<"error", ":", " ", "m">>

Numbers ==
    { <<"1">>, <<"0", "0", "7">>, U32Max,
      <<"4", "2", "9", "4", "9", "6", "7", "2", "9", "6">>,
      <<"9", "9", "9", "9", "9", "9", "9", "9", "9", "9", "9">>,
      <<"x">> }

Location(l, c) == <<" ", " ", "-->", " ", "f", ":">> \o l \o <<":">> \o c \o <<NL>>

BlockTexts ==
    { Header, Header \o <<NL>>, Header \o <<NL, "x", NL>>, Header \o <<NL, NL, "x", NL>> }
    \cup { Header \o <<NL>> \o Location(l, c) : l \in Numbers, c \in Numbers }

RECURSIVE Assemble(_)
Assemble(its) ==
    IF its = <<>> THEN <<>> ELSE its[1].text \o Assemble(Tail(its))

-----------------------------------------------------------------------------
(* The parser harness: render and re-parse a diagnostic, or run a command  *)
(* whose stderr is the assembled text.                                     *)

InitDiag ==
    /\ diag \in {Some(d) : d \in Diagnostics}
    /\ items = <<>>
    /\ text = <<>>
    /\ status = TRUE
    /\ parsed = None
    /\ compiled = None
    /\ ppc = "diag"

InitText ==
    /\ diag = None
    /\ items \in SeqsUpTo(ItemPool, MaxItems)
    /\ text = Assemble(items)
    /\ status \in BOOLEAN
    /\ parsed = None
    /\ compiled = None
    /\ ppc = "text"

\* a block as the scanner may collect it
InitBlock ==
    /\ diag = None
    /\ items = <<>>
    /\ text \in BlockTexts
    /\ status = TRUE
    /\ parsed = None
    /\ compiled = None
    /\ ppc = "block"

\* d.to_string()
Render ==
    /\ ppc = "diag"
    /\ text' = fmt(diag[1])
    /\ ppc' = "rendered"
    /\ UNCHANGED <<diag, items, status, parsed, compiled>>
    /\ UNCHANGED wvars

\* text.parse::<RustDiagnostic>()
Parse ==
    /\ ppc \in {"rendered", "block"}
    /\ parsed' = Some(from_str(text))
    /\ ppc' = IF ppc = "rendered" THEN "parsed" ELSE "read"
    /\ UNCHANGED <<diag, items, text, status, compiled>>
    /\ UNCHANGED wvars

\* cargo::run on a child that wrote `text` to stderr and exited with `status`
RunCommand ==
    /\ ppc = "text"
    /\ compiled' = Some(run(Output(TRUE, TRUE, status, text)))
    /\ ppc' = "ran"
    /\ UNCHANGED <<diag, items, text, status, parsed>>
    /\ UNCHANGED wvars

NextParser == Render \/ Parse \/ RunCommand

-----------------------------------------------------------------------------
(* src/watcher.rs: the shared State, its lock and the controller's calls *)

MaxWatchers == 2

MaxThreads == 2

MaxTriggers == 1

Paths == {"project", "missing"}

\* the directories that exist and can be watched
Observable == {"project"}

Commands == {"cargo check", "cargo build"}

Policies == {"readers", "writers"}

Watchers == 1..MaxWatchers

\* every thread one Watcher is started with, or one thread for each Watcher
Threads == 1..(IF MaxThreads > MaxWatchers THEN MaxThreads ELSE MaxWatchers)

\* struct State; tx is the channel with the State's index
State(project_root, command, quit, runner) ==
    [project_root |-> project_root, command |-> command, quit |-> quit, runner |-> runner]

\* MainContext::channel: the receiver end is live or destroyed, and what was sent
Channel(open, queue) == [open |-> open, queue |-> queue]

\* a thread running `watchexec::watch(&this).unwrap()`: the Watcher it cloned,
\* where it is, the filesystem events it has seen, the result it is about to send
Worker(watcher, pc, triggers, result) ==
    [watcher |-> watcher, pc |-> pc, triggers |-> triggers, result |-> result]

NoCall == [op |-> "none", watcher |-> 0, thread |-> 0]

Call(op, watcher, thread) == [op |-> op, watcher |-> watcher, thread |-> thread]

\* the RwLockReadGuards a worker holds: the temporaries of args() and of run()
\* live to the end of the expression that created them
Guards(pc) ==
    IF pc \in {"args2", "run2"} THEN 1
    ELSE IF pc = "running" THEN 2
    ELSE 0

Readers(w) ==
    Cardinality({t \in DOMAIN workers : workers[t].watcher = w /\ Guards(workers[t].pc) = 1})
    + 2 * Cardinality({t \in DOMAIN workers : workers[t].watcher = w /\ Guards(workers[t].pc) = 2})

WriterWaiting(w) == control.op # "none" /\ control.watcher = w

\* state.read(): never granted under a writer; with a writer waiting it is
\* granted only by a lock that prefers readers
CanRead(w) == policy = "readers" \/ ~WriterWaiting(w)

\* state.write(): granted once no read guard is left
CanWrite(w) == Readers(w) = 0

\* Watcher::start up to thread::spawn: the right-hand side of the assignment is
\* evaluated first, the write lock is taken afterwards
Start(w) ==
    /\ w \in DOMAIN state
    /\ control = NoCall
    /\ Len(workers) < MaxThreads
    /\ workers' = Append(workers, Worker(w, "args1", 0, None))
    /\ control' = Call("start", w, Len(workers) + 1)
    /\ UNCHANGED pvars
    /\ UNCHANGED <<policy, state, channels, model, order>>

\* Watcher::start from state.write() on: runner = Some(handle)
StartReturn ==
    /\ control.op = "start"
    /\ CanWrite(control.watcher)
    /\ state' = [state EXCEPT ![control.watcher].runner = Some(control.thread)]
    /\ control' = NoCall
    /\ UNCHANGED pvars
    /\ UNCHANGED <<policy, channels, workers, model, order>>

\* Watcher::try_stop up to state.write()
TryStop(w) ==
    /\ w \in DOMAIN state
    /\ control = NoCall
    /\ control' = Call("stop", w, 0)
    /\ UNCHANGED pvars
    /\ UNCHANGED <<policy, state, channels, workers, model, order>>

\* Watcher::try_stop from state.write() on: quit = true
TryStopReturn ==
    /\ control.op = "stop"
    /\ CanWrite(control.watcher)
    /\ state' = [state EXCEPT ![control.watcher].quit = TRUE]
    /\ control' = NoCall
    /\ UNCHANGED pvars
    /\ UNCHANGED <<policy, channels, workers, model, order>>

-----------------------------------------------------------------------------
(* src/watcher.rs: the worker thread, `watchexec::watch(&this).unwrap()`    *)
(* with the Handler the Watcher implements                                 *)

\* what the child process of one run may do
RunOutputs ==
    { Output(FALSE, TRUE, FALSE, <<>>),
      Output(TRUE, FALSE, FALSE, <<>>),
      Output(TRUE, TRUE, TRUE, <<>>),
      Output(TRUE, TRUE, FALSE, <<"error", ":", " ", "m", NL, NL>>),
      Output(TRUE, TRUE, FALSE, <<"error", "s", ":", " ", "m", NL, NL>>),
      Output(TRUE, TRUE, FALSE,
             <<"error", ":", " ", "m", NL, " ", " ", "-->", " ", "f", ":",
               "4", "2", "9", "4", "9", "6", "7", "2", "9", "6", ":", "1", NL, NL>>) }

Goto(t, pc) == workers' = [workers EXCEPT ![t].pc = pc]

\* the history of a Watcher's triggers: the threads that are in a call of its
\* handler, in the order the calls were made, and those of them that were
\* called before a call whose result has been sent already
NoOrder == [w \in Watchers |-> [pending |-> <<>>, late |-> {}]]

\* no history is kept
Unrecorded == <<>>

Record(h) == order' = IF order = Unrecorded THEN order ELSE h

Without(q, t) == SelectSeq(q, LAMBDA u : u # t)

\* the threads whose call was made before the call thread t is in
Before(q, t) == {q[i] : i \in {j \in 1..Len(q) : \E k \in (j + 1)..Len(q) : q[k] = t}}

\* watch() calls on_manual or on_update in thread t
Triggered(t) ==
    Record([order EXCEPT ![workers[t].watcher].pending = Append(@, t)])

\* tx.send(results) returned Ok in thread t
Delivered(t) ==
    Record([order EXCEPT ![workers[t].watcher] =
                [pending |-> Without(@.pending, t),
                 late |-> (@.late \ {t}) \cup Before(@.pending, t)]])

\* thread t is over
Over(t) ==
    Record([order EXCEPT ![workers[t].watcher] =
                [pending |-> Without(@.pending, t), late |-> @.late \ {t}]])

\* the thread is over: watch() returned Ok ("exited") or the thread panicked
Ends(t, pc) == workers' = [workers EXCEPT ![t] = Worker(@.watcher, pc, 0, None)]

\* Handler::args, first state.read() (project_root)
ArgsRoot(t) ==
    /\ t \in DOMAIN workers
    /\ workers[t].pc = "args1"
    /\ CanRead(workers[t].watcher)
    /\ Goto(t, "args2")
    /\ UNCHANGED pvars
    /\ UNCHANGED <<policy, state, channels, control, model, order>>

\* Handler::args, second state.read() (command), build, both guards dropped
ArgsCommand(t) ==
    /\ t \in DOMAIN workers
    /\ workers[t].pc = "args2"
    /\ CanRead(workers[t].watcher)
    /\ Goto(t, "setup")
    /\ UNCHANGED pvars
    /\ UNCHANGED <<policy, state, channels, control, model, order>>

\* watch() sets the watcher up on args.paths; an Err is unwrapped in the thread.
\* With run_initially(true) the first call of the handler is on_manual.
WatchSetup(t) ==
    /\ t \in DOMAIN workers
    /\ workers[t].pc = "setup"
    /\ IF state[workers[t].watcher].project_root \in Observable
       THEN Goto(t, "check") /\ Triggered(t)
       ELSE Ends(t, "panicked") /\ Over(t)
    /\ UNCHANGED pvars
    /\ UNCHANGED <<policy, state, channels, control, model>>

\* on_manual without its test of quit
OnManualIgnoresQuit(t) ==
    /\ t \in DOMAIN workers
    /\ workers[t].pc = "check"
    /\ CanRead(workers[t].watcher)
    /\ Goto(t, "run1")
    /\ UNCHANGED pvars
    /\ UNCHANGED <<policy, state, channels, control, model, order>>

\* Handler::on_manual, `if self.state.read().unwrap().quit { return Ok(false) }`:
\* Ok(false) ends watch(), the thread exits
OnManualQuit(t) ==
    /\ t \in DOMAIN workers
    /\ workers[t].pc = "check"
    /\ CanRead(workers[t].watcher)
    /\ IF state[workers[t].watcher].quit
       THEN Ends(t, "exited") /\ Over(t)
       ELSE Goto(t, "run1") /\ UNCHANGED order
    /\ UNCHANGED pvars
    /\ UNCHANGED <<policy, state, channels, control, model>>

\* Watcher::run, first state.read() (project_root)
RunRoot(t) ==
    /\ t \in DOMAIN workers
    /\ workers[t].pc = "run1"
    /\ CanRead(workers[t].watcher)
    /\ Goto(t, "run2")
    /\ UNCHANGED pvars
    /\ UNCHANGED <<policy, state, channels, control, model, order>>

\* Watcher::run, second state.read() (command), then cargo::run is entered
RunCommandRead(t) ==
    /\ t \in DOMAIN workers
    /\ workers[t].pc = "run2"
    /\ CanRead(workers[t].watcher)
    /\ Goto(t, "running")
    /\ UNCHANGED pvars
    /\ UNCHANGED <<policy, state, channels, control, model, order>>

\* cargo::run returns r and both guards are dropped.  Ok goes on to the
\* and_then closure; Err is mapped to WatchError::Io, returned by on_manual
\* through watch() and unwrapped in the thread; a panic unwinds the thread.
RunReturns(t, r) ==
    /\ t \in DOMAIN workers
    /\ workers[t].pc = "running"
    /\ IF r.tag = "Ok"
       THEN /\ workers' = [workers EXCEPT ![t].pc = "send", ![t].result = Some(r.val)]
            /\ UNCHANGED order
       ELSE Ends(t, "panicked") /\ Over(t)
    /\ UNCHANGED pvars
    /\ UNCHANGED <<policy, state, channels, control, model>>

RunReturn(t) == \E out \in RunOutputs : RunReturns(t, run(out))

\* the and_then closure: state.read().unwrap().tx.send(results); Ok(true)
\* keeps watch() waiting for the next event, a send error is an Err as above
Send(t) ==
    /\ t \in DOMAIN workers
    /\ workers[t].pc = "send"
    /\ CanRead(workers[t].watcher)
    /\ IF channels[workers[t].watcher].open
       THEN /\ channels' = [channels EXCEPT ![workers[t].watcher].queue =
                                Append(@, workers[t].result[1])]
            /\ workers' = [workers EXCEPT ![t].pc = "wait", ![t].result = None]
            /\ Delivered(t)
       ELSE /\ Ends(t, "panicked")
            /\ Over(t)
            /\ UNCHANGED channels
    /\ UNCHANGED pvars
    /\ UNCHANGED <<policy, state, control, model>>

\* Handler::on_update: a debounced batch of filesystem events arrives
OnUpdate(t) ==
    /\ t \in DOMAIN workers
    /\ workers[t].pc = "wait"
    /\ workers[t].triggers < MaxTriggers
    /\ workers' = [workers EXCEPT ![t].pc = "check", ![t].triggers = @ + 1]
    /\ Triggered(t)
    /\ UNCHANGED pvars
    /\ UNCHANGED <<policy, state, channels, control, model>>

-----------------------------------------------------------------------------
(* src/main.rs: the host's Model and its ToggleWatch message *)

Model(project_root, command, results, appState, watcher, receiver_id) ==
    [project_root |-> project_root, command |-> command, results |-> results,
     state |-> appState, watcher |-> watcher, receiver_id |-> receiver_id]

\* impl Default for Model
ModelDefault == Model("project", "cargo check", None, "Idle", None, None)

\* ToggleWatch in AppState::Idle, were it to start the State of the previous
\* session again instead of building a new one
ToggleWatchIdleReusesState ==
    /\ model.state = "Idle"
    /\ control = NoCall
    /\ Len(workers) < MaxThreads
    /\ IF state = <<>>
       THEN /\ state' = <<State(model.project_root, model.command, FALSE, None)>>
            /\ channels' = <<Channel(TRUE, <<>>)>>
       ELSE /\ state' = [state EXCEPT ![Len(state)] =
                             State(model.project_root, model.command, FALSE, None)]
            /\ channels' = [channels EXCEPT ![Len(state)] = Channel(TRUE, <<>>)]
    /\ workers' = Append(workers, Worker(Len(state'), "args1", 0, None))
    /\ control' = Call("start", Len(state'), Len(workers) + 1)
    /\ UNCHANGED pvars
    /\ UNCHANGED <<policy, model, order>>

\* Message::ToggleWatch in AppState::Idle, up to the write lock of start():
\* MainContext::channel, Watcher::new, thread::spawn
ToggleWatchIdle ==
    /\ model.state = "Idle"
    /\ control = NoCall
    /\ Len(state) < MaxWatchers
    /\ state' = Append(state, State(model.project_root, model.command, FALSE, None))
    /\ channels' = Append(channels, Channel(TRUE, <<>>))
    /\ workers' = Append(workers, Worker(Len(state) + 1, "args1", 0, None))
    /\ control' = Call("start", Len(state) + 1, Len(workers) + 1)
    /\ UNCHANGED pvars
    /\ UNCHANGED <<policy, model, order>>

\* ... and from the write lock on: runner is set, the receiver attached
ToggleWatchStarted ==
    /\ model.state = "Idle"
    /\ control.op = "start"
    /\ CanWrite(control.watcher)
    /\ state' = [state EXCEPT ![control.watcher].runner = Some(control.thread)]
    /\ control' = NoCall
    /\ model' = [model EXCEPT !.watcher = Some(control.watcher),
                              !.receiver_id = Some(control.watcher),
                              !.state = "Watching"]
    /\ UNCHANGED pvars
    /\ UNCHANGED <<policy, channels, workers, order>>

\* Message::ToggleWatch in AppState::Watching, up to the write lock of try_stop()
ToggleWatchWatching ==
    /\ model.state = "Watching"
    /\ control = NoCall
    /\ control' = Call("stop", model.watcher[1], 0)
    /\ model' = [model EXCEPT !.watcher = None]
    /\ UNCHANGED pvars
    /\ UNCHANGED <<policy, state, channels, workers, order>>

\* the end of a stop, were the receiver's source left alive
ToggleWatchStoppedKeepsSource ==
    /\ model.state = "Watching"
    /\ control.op = "stop"
    /\ CanWrite(control.watcher)
    /\ state' = [state EXCEPT ![control.watcher].quit = TRUE]
    /\ control' = NoCall
    /\ model' = [model EXCEPT !.receiver_id = None, !.results = None, !.state = "Idle"]
    /\ UNCHANGED pvars
    /\ UNCHANGED <<policy, channels, workers, order>>

\* the end of a stop, were receiver_id left in place
ToggleWatchStoppedKeepsReceiver ==
    /\ model.state = "Watching"
    /\ control.op = "stop"
    /\ CanWrite(control.watcher)
    /\ state' = [state EXCEPT ![control.watcher].quit = TRUE]
    /\ channels' = [channels EXCEPT ![model.receiver_id[1]] = Channel(FALSE, <<>>)]
    /\ control' = NoCall
    /\ model' = [model EXCEPT !.results = None, !.state = "Idle"]
    /\ UNCHANGED pvars
    /\ UNCHANGED <<policy, workers, order>>

\* ... and from the write lock on: quit is set, the receiver's source destroyed
ToggleWatchStopped ==
    /\ model.state = "Watching"
    /\ control.op = "stop"
    /\ CanWrite(control.watcher)
    /\ state' = [state EXCEPT ![control.watcher].quit = TRUE]
    /\ channels' = [channels EXCEPT ![model.receiver_id[1]] = Channel(FALSE, <<>>)]
    /\ control' = NoCall
    /\ model' = [model EXCEPT !.receiver_id = None, !.results = None, !.state = "Idle"]
    /\ UNCHANGED pvars
    /\ UNCHANGED <<policy, workers, order>>

\* the closure given to receiver.attach, run by the main loop for the next
\* result in the channel: `*results.as_ref().unwrap().borrow_mut() = result`.
\* results is the clone of self.results the closure was built with, and
\* self.results is assigned nowhere but to None.  The unwrap of None panics
\* in a callback of the main loop, which ends the process with its threads.
Receive ==
    /\ control = NoCall
    /\ model.state \in {"Idle", "Watching"}
    /\ model.receiver_id # None
    /\ channels[model.receiver_id[1]].open
    /\ channels[model.receiver_id[1]].queue # <<>>
    /\ IF model.results = None
       THEN /\ model' = [model EXCEPT !.state = "Aborted"]
            /\ channels' = [w \in DOMAIN channels |-> Channel(FALSE, <<>>)]
            /\ workers' = [t \in DOMAIN workers |->
                               Worker(workers[t].watcher, "aborted", 0, None)]
            /\ Record(NoOrder)
       ELSE /\ model' = [model EXCEPT !.results =
                             Some(Head(channels[model.receiver_id[1]].queue))]
            /\ channels' = [channels EXCEPT ![model.receiver_id[1]].queue = Tail(@)]
            /\ UNCHANGED <<workers, order>>
    /\ UNCHANGED pvars
    /\ UNCHANGED <<policy, state, control>>

\* Message::PathChanged, Message::FolderSelected: the entry is editable and
\* the folder button sensitive in AppState::Idle only
PathChanged(path) ==
    /\ control = NoCall
    /\ model.state = "Idle"
    /\ model.project_root # path
    /\ model' = [model EXCEPT !.project_root = path]
    /\ UNCHANGED pvars
    /\ UNCHANGED <<policy, state, channels, workers, control, order>>

\* Message::CommandChanged: the entry is editable in AppState::Idle only
CommandChanged(command) ==
    /\ control = NoCall
    /\ model.state = "Idle"
    /\ model.command # command
    /\ model' = [model EXCEPT !.command = command]
    /\ UNCHANGED pvars
    /\ UNCHANGED <<policy, state, channels, workers, control, order>>

-----------------------------------------------------------------------------
(* Specifications *)

ParserIdle ==
    /\ diag = None
    /\ items = <<>>
    /\ text = <<>>
    /\ status = TRUE
    /\ parsed = None
    /\ compiled = None
    /\ ppc = "idle"

\* nothing created yet; the lock's policy is the build's
InitWatch ==
    /\ policy \in Policies
    /\ state = <<>>
    /\ channels = <<>>
    /\ workers = <<>>
    /\ control = NoCall
    /\ model = ModelDefault
    /\ order = NoOrder

\* the host program
Init == ParserIdle /\ InitWatch

Next ==
    \/ ToggleWatchIdle
    \/ ToggleWatchStarted
    \/ ToggleWatchWatching
    \/ ToggleWatchStopped
    \/ Receive
    \/ \E path \in Paths : PathChanged(path)
    \/ \E command \in Commands : CommandChanged(command)
    \/ \E t \in Threads : ArgsRoot(t)
    \/ \E t \in Threads : ArgsCommand(t)
    \/ \E t \in Threads : WatchSetup(t)
    \/ \E t \in Threads : OnManualQuit(t)
    \/ \E t \in Threads : RunRoot(t)
    \/ \E t \in Threads : RunCommandRead(t)
    \/ \E t \in Threads : RunReturn(t)
    \/ \E t \in Threads : Send(t)
    \/ \E t \in Threads : OnUpdate(t)

Spec == Init /\ [][Next]_vars

\* a Watcher driven through its public interface by any caller
NextApi ==
    \/ \E w \in Watchers : Start(w)
    \/ StartReturn
    \/ \E w \in Watchers : TryStop(w)
    \/ TryStopReturn
    \/ \E t \in Threads : ArgsRoot(t)
    \/ \E t \in Threads : ArgsCommand(t)
    \/ \E t \in Threads : WatchSetup(t)
    \/ \E t \in Threads : OnManualQuit(t)
    \/ \E t \in Threads : RunRoot(t)
    \/ \E t \in Threads : RunCommandRead(t)
    \/ \E t \in Threads : RunReturn(t)
    \/ \E t \in Threads : Send(t)
    \/ \E t \in Threads : OnUpdate(t)

\* one Watcher, as Watcher::new returns it
InitWatcher ==
    /\ ParserIdle
    /\ policy \in Policies
    /\ \E path \in Paths : state = <<State(path, "cargo check", FALSE, None)>>
    /\ channels = <<Channel(TRUE, <<>>)>>
    /\ workers = <<>>
    /\ control = NoCall
    /\ model = ModelDefault

InitApi == InitWatcher /\ order = Unrecorded

SpecApi == InitApi /\ [][NextApi]_vars

\* the same, with the history of the Watcher's triggers
InitApiOrder == InitWatcher /\ order = NoOrder

SpecApiOrder == InitApiOrder /\ [][NextApi]_vars

\* a step of thread t that needs no filesystem event: the lock is granted
\* when it can be, the child process ends, the thread is scheduled
Runs(t) ==
    \/ ArgsRoot(t)
    \/ ArgsCommand(t)
    \/ WatchSetup(t)
    \/ OnManualQuit(t)
    \/ RunRoot(t)
    \/ RunCommandRead(t)
    \/ RunReturn(t)
    \/ Send(t)

\* the host program with its threads scheduled fairly: a call of start() or
\* try_stop() gets the write lock when it is free, every thread goes on when
\* it can, the main loop runs the receiver's closure when a result is there.
\* Nothing makes the user toggle or the filesystem change.
SpecLive ==
    /\ Init
    /\ [][Next]_vars
    /\ WF_vars(ToggleWatchStarted)
    /\ WF_vars(ToggleWatchStopped)
    /\ WF_vars(Receive)
    /\ \A t \in Threads : WF_vars(Runs(t))

\* the parser and the runner on their own
InitParser == (InitDiag \/ InitText \/ InitBlock) /\ policy = "readers" /\ InitWatch

SpecParser == InitParser /\ [][NextParser]_vars

-----------------------------------------------------------------------------
(* Properties *)

WatcherOf(t) == workers[t].watcher

Stopped(t) == state[WatcherOf(t)].quit

\* the worker t took the step
Moved(t) == workers'[t] # workers[t]

\* C1, as stated: once try_stop has returned for a Watcher (quit is set), no
\* worker of that Watcher enters cargo::run any more.
C1_NoRunStartsAfterStop ==
    [][\A t \in DOMAIN workers :
          (Stopped(t) /\ workers[t].pc # "running") => workers'[t].pc # "running"]_vars

\* C1, amended: once try_stop has returned, a worker that handles a trigger
\* (an update arrives, on_manual reads quit) leaves through Ok(false) without
\* a run and without a send; and a worker that is past its run (sending,
\* waiting or checking) never starts another one, so the one run whose quit
\* check preceded the stop is the last, with at most one result.
C1_TriggerAfterStopExits ==
    [][\A t \in DOMAIN workers :
          (Stopped(t) /\ Moved(t)) =>
              /\ workers[t].pc \in {"wait", "check"} =>
                     /\ workers'[t].pc \in {"check", "exited"}
                     /\ channels' = channels
              /\ workers[t].pc = "send" =>
                     workers'[t].pc \in {"wait", "panicked"}]_vars

\* C1: a worker that delivered a result has left through Ok(false) after the stop
C1_Witness ==
    \E t \in DOMAIN workers :
        /\ workers[t].pc = "exited"
        /\ Stopped(t)
        /\ Len(channels[WatcherOf(t)].queue) >= 1

\* C2, as stated: a run that ends while the Watcher is not stopped, whatever
\* its outcome, leaves the worker alive: it goes on to send or to wait.
C2_BadRunKeepsWorker ==
    [][\A t \in DOMAIN workers :
          (workers[t].pc = "running" /\ ~Stopped(t) /\ Moved(t)) =>
              workers'[t].pc \in {"send", "wait"}]_vars

\* C3, as stated: every run that ends has an outcome to deliver, and the
\* delivery of a run started while not stopped puts exactly one outcome
\* into the sink.
C3_EveryRunDelivers ==
    [][\A t \in DOMAIN workers :
          /\ (workers[t].pc = "running" /\ Moved(t)) =>
                 (workers'[t].pc = "send" /\ workers'[t].result # None)
          /\ (workers[t].pc = "send" /\ ~Stopped(t) /\ Moved(t)) =>
                 Len(channels'[WatcherOf(t)].queue)
                     = Len(channels[WatcherOf(t)].queue) + 1]_vars

InFlight(w) == {t \in DOMAIN workers : workers[t].watcher = w /\ workers[t].pc = "running"}

\* C4, as stated: at most one cargo::run is in flight for one Watcher.
C4_OneRunInFlight == \A w \in DOMAIN state : Cardinality(InFlight(w)) <= 1

\* C5, as stated: start on a Watcher that is started and not stopped spawns
\* no worker and leaves the Watcher's State as it is.
C5_SecondStartRefused ==
    [][\A w \in DOMAIN state :
          (state[w].runner # None /\ ~state[w].quit) =>
              /\ \A t \in DOMAIN workers' : t \notin DOMAIN workers => workers'[t].watcher # w
              /\ (control.op = "none" /\ control'.op = "start") => control'.watcher # w]_vars

\* C6, as stated: the host is never Watching a root that cannot be observed.
C6_BadRootStaysIdle ==
    (model.state = "Watching" /\ model.watcher # None) =>
        state[model.watcher[1]].project_root \in Observable

\* C7, as stated: try_stop called while a cargo::run is in flight does not
\* wait for it: the write lock it asks for is free.
C7_StopDoesNotWaitForRun ==
    (control.op = "stop" /\ InFlight(control.watcher) # {}) => CanWrite(control.watcher)

\* C8, as stated: parsing the rendering of a diagnostic yields that diagnostic.
C8_RoundTrip == ppc = "parsed" => parsed[1] = Ok(diag[1])

\* every block is followed by a blank line or is the last thing in the text,
\* and no block is malformed
WellSeparated(its) ==
    \A i \in 1..Len(its) :
        /\ its[i].kind \in {"blank", "noise", "block"}
        /\ its[i].kind = "block" => (i = Len(its) \/ its[i + 1].kind = "blank")

IsBlockOf(it, type) == it.kind = "block" /\ it.d[1].type_ = type

\* the diagnostics of the blocks of one type, in text order
BlocksOf(its, type) ==
    LET sel == SelectSeq(its, LAMBDA it : IsBlockOf(it, type))
    IN  [i \in 1..Len(sel) |-> sel[i].d[1]]

\* C9, as stated: from chatter interleaved with well-formed blocks, the last
\* of which may end the text, run returns exactly the blocks' diagnostics,
\* in order.
C9_ScannerKeepsEveryBlock ==
    (ppc = "ran" /\ WellSeparated(items)) =>
        compiled[1] = Ok(CompileResult(status, BlocksOf(items, "Error"),
                                       BlocksOf(items, "Warning")))

\* the scanner is outside any block before item i
RECURSIVE IdleBefore(_, _)
IdleBefore(its, i) ==
    IF i = 1 \/ its[i - 1].kind = "blank" THEN TRUE
    ELSE IF its[i - 1].kind = "noise" THEN IdleBefore(its, i - 1)
    ELSE FALSE

OpensBadBlock(its) == \E i \in 1..Len(its) : its[i].kind = "bad" /\ IdleBefore(its, i)

\* C10, as stated: when the text opens a block that does not match the
\* grammar, run returns an error and no CompileResult.
C10_ParseFailureIsError ==
    (ppc = "ran" /\ OpensBadBlock(items)) => compiled[1].tag = "Err"


\* C11, as stated: results reach the sink in trigger order: of two calls of
\* the handler of one Watcher that both send a result, the earlier call's
\* result is sent first, so no thread sends the result of a call that was
\* made before a call whose result has been sent already.
C11_SentInTriggerOrder ==
    [][\A t \in DOMAIN workers :
          (workers[t].pc = "send" /\ workers'[t].pc = "wait") =>
              t \notin order[WatcherOf(t)].late]_vars

\* C12, as stated: start/stop cycles leak no worker thread: once its session
\* is stopped, a worker thread eventually terminates.
C12_StoppedWorkerTerminates ==
    \A t \in Threads :
        (t \in DOMAIN workers /\ Stopped(t)) ~>
            (t \in DOMAIN workers /\ workers[t].pc \in {"exited", "panicked", "aborted"})


\* C13, as stated: success of a CompileResult is the exit status being
\* zero, whatever diagnostics were parsed; exit status zero with an empty
\* stderr gives success = true, no errors and no warnings.
C13_SuccessIsExitStatus ==
    ppc = "ran" =>
        /\ compiled[1].tag = "Ok" => compiled[1].val.success = status
        /\ (text = <<>> /\ status) => compiled[1] = Ok(CompileResult(TRUE, <<>>, <<>>))

\* a run that exits with status zero and reports an error all the same
C13_Witness ==
    /\ ppc = "ran"
    /\ status
    /\ compiled[1].tag = "Ok"
    /\ compiled[1].val.errors # <<>>


\* C14, as stated: quit is never reset once set, a start builds a new State
\* with quit = false that no thread of an earlier session refers to, and so
\* the worker of a stopped session stays stopped through every restart.
C14_QuitIsMonotonic ==
    [][/\ \A w \in DOMAIN state : w \in DOMAIN state' /\ (state[w].quit => state'[w].quit)
       /\ \A w \in DOMAIN state' \ DOMAIN state :
              /\ ~state'[w].quit
              /\ \A t \in DOMAIN workers : workers[t].watcher # w
       /\ \A t \in DOMAIN workers :
              /\ t \in DOMAIN workers'
              /\ workers'[t].watcher = workers[t].watcher
              /\ Stopped(t) => state'[workers'[t].watcher].quit]_vars

\* a second session is watching while the stopped worker of the first one is
\* still parked in watch()
C14_Witness ==
    /\ Len(state) >= 2
    /\ model.state = "Watching"
    /\ model.watcher = Some(2)
    /\ state[1].quit
    /\ ~state[2].quit
    /\ \E t \in DOMAIN workers : workers[t].watcher = 1 /\ workers[t].pc = "wait"


\* the second line of the block has no "-->": it is absent, empty or detail
NoArrow(inp) ==
    LET lines == splitn3(inp)
    IN  Len(lines) < 2 \/ \A i \in 1..Len(lines[2]) : lines[2][i] # "-->"

\* C15, as stated: a block whose second line is absent, blank or free text
\* rather than a location line parses, with file, line and column unset.
C15_LocationIsOptional ==
    (ppc = "read" /\ NoArrow(text)) =>
        /\ parsed[1].tag = "Ok"
        /\ parsed[1].val.file = None
        /\ parsed[1].val.line = None
        /\ parsed[1].val.column = None

\* C16, as stated: from_str ends by returning Ok or Err whatever the line and
\* column fields hold; it never panics.
C16_NumbersNeverPanic ==
    ppc \in {"parsed", "read"} => parsed[1].tag \in {"Ok", "Err"}


\* the texts handed to from_str, read off the pieces of the stderr text: a
\* block opens at a block outside any block and takes every piece up to the
\* next empty line; without one it is never handed over
Chunk(open, done) == [open |-> open, done |-> done]

ChunkStep(c, it) ==
    IF c.open = None
    THEN IF it.kind \in {"block", "bad"} THEN Chunk(Some(it.text), c.done) ELSE c
    ELSE IF it.kind = "blank" THEN Chunk(None, Append(c.done, c.open[1]))
    ELSE Chunk(Some(c.open[1] \o it.text), c.done)

RECURSIVE Chunks(_, _, _)
Chunks(its, i, c) ==
    IF i > Len(its) THEN c.done ELSE Chunks(its, i + 1, ChunkStep(c, its[i]))

ParsedBlocks(its) ==
    LET texts == Chunks(its, 1, Chunk(None, <<>>))
    IN  [i \in 1..Len(texts) |-> from_str(texts[i]).val]

OfType(ds, type) == SelectSeq(ds, LAMBDA d : d.type_ = type)

C18_DeliveryStoresResult ==
    [][(/\ control = NoCall
        /\ control' = NoCall
        /\ model.receiver_id # None
        /\ model' # model) =>
           /\ model'.results = Some(Head(channels[model.receiver_id[1]].queue))
           /\ model'.state = model.state]_vars


\* C19, as stated: the controller and its worker never deadlock on the lock
\* of the State: every call of try_stop that waits for the write lock
\* eventually returns.
C19_StopEventuallyReturns == (control.op = "stop") ~> (control.op = "none")


\* C20, as stated: between messages the host is Watching exactly when it
\* holds a Watcher and a receiver, and Idle exactly when it holds neither;
\* try_stop is only called on a started Watcher and start only from Idle.
C20_HostStateMachine ==
    /\ (control = NoCall /\ model.state \in {"Idle", "Watching"}) =>
           /\ model.state = "Watching" <=>
                  (model.watcher # None /\ model.receiver_id # None)
           /\ model.state = "Idle" <=>
                  (model.watcher = None /\ model.receiver_id = None)
    /\ control.op = "stop" =>
           (model.state = "Watching" /\ state[control.watcher].runner # None)
    /\ control.op = "start" => model.state = "Idle"

\* the host is watching for the second time
C20_Witness ==
    /\ control = NoCall
    /\ model.state = "Watching"
    /\ model.watcher = Some(2)
    /\ model.receiver_id = Some(2)
    /\ state[1].runner # None
    /\ state[1].quit


\* C21, as stated: sessions are isolated.  The root and the command of a
\* session are those the host held when it started and never change; a
\* result enters a session's channel only from a worker of that session and
\* only while its receiver is alive, so nothing is emitted into a session
\* that was stopped; and the host takes results only from the channel of
\* the session it is watching.
C21_SessionIsolation ==
    [][/\ \A w \in DOMAIN state :
              /\ state'[w].project_root = state[w].project_root
              /\ state'[w].command = state[w].command
              /\ state[w].quit => (~channels[w].open /\ channels[w].queue = <<>>)
       /\ \A w \in DOMAIN state' \ DOMAIN state :
              /\ state'[w].project_root = model.project_root
              /\ state'[w].command = model.command
       /\ \A w \in DOMAIN channels :
              Len(channels'[w].queue) > Len(channels[w].queue) =>
                  /\ channels[w].open
                  /\ \E t \in DOMAIN workers :
                         /\ workers[t].watcher = w
                         /\ workers[t].pc = "send"
                         /\ channels'[w].queue =
                                Append(channels[w].queue, workers[t].result[1])
       /\ (/\ control = NoCall
           /\ control' = NoCall
           /\ model.receiver_id # None
           /\ model' # model) =>
              /\ model.state = "Watching"
              /\ model.watcher = model.receiver_id
              /\ ~state[model.receiver_id[1]].quit
              /\ channels[model.receiver_id[1]].queue # <<>>]_vars

\* the second session, started with another command, has a result waiting
\* while the worker of the first, stopped during its run, is about to send
C21_Witness ==
    /\ Len(state) >= 2
    /\ model.state = "Watching"
    /\ model.watcher = Some(2)
    /\ state[1].quit
    /\ state[1].command # state[2].command
    /\ channels[2].queue # <<>>
    /\ \E t \in DOMAIN workers : workers[t].watcher = 1 /\ workers[t].pc = "send"


=============================================================================
